---- MODULE Spec2Model ----
(***************************************************************************)
(* The newsletter generator: the Streamlit script main() of src/main.py,   *)
(* NewsletterAgents.run_pipeline, and WebSearchTool of                     *)
(* src/web_search_tool.py.                                                 *)
(*                                                                         *)
(* Python values are modelled as follows.                                  *)
(*   None / Optional[T]   a sequence of length 0 (None) or 1 (the value)   *)
(*   str                  a TLA+ string where only identity and length     *)
(*                        matter (keys, queries, messages); a sequence of  *)
(*                        one-character strings where it is sliced (the    *)
(*                        text of a search result)                         *)
(*   dict                 a record; d.get(k, default) is Get(d, k, default)*)
(*   object               a record; hasattr(o, a) is a \in DOMAIN o        *)
(* The remote services (the Exa search API, the completion provider behind *)
(* karo's BaseAgent.run) are not code of this repository: every outcome    *)
(* they can have is a nondeterministic input of the action that calls them.*)
(***************************************************************************)
EXTENDS Integers, Sequences, FiniteSets, TLC

---------------------------------------------------------------------------
(* Bounds of the model *)

\* The search provider returns between 0 and MaxDocs documents.
MaxDocs == 6
\* The text of a returned document has between 0 and MaxTextLen characters.
MaxTextLen == 3
\* A caller of the tool asks for previews of 1..MaxPreviewChars characters.
MaxPreviewChars == 2
\* The completion provider asks for at most MaxToolRequests tool calls while
\* one agent runs.
MaxToolRequests == 2

(* Program constants *)

\* WebSearchInputSchema.max_results as manual_search sets it
max_results == 5
\* WebSearchInputSchema.max_preview_chars (default)
max_preview_chars == 500
\* BaseAgentConfig.max_tool_call_attempts of the researcher and the insights expert
max_tool_call_attempts == 5
\* the preview characters run_pipeline renders per result
summary_preview_chars == 300
\* the characters of the search summary the insights message quotes
insights_context_chars == 1000

---------------------------------------------------------------------------
(* Python values *)

None == <<>>
Some(x) == <<x>>

\* d.get(k, default)
Get(d, k, default) == IF k \in DOMAIN d THEN d[k] ELSE default

\* truth value of an Optional[str]: None and "" are false
Truthy(o) == o # None /\ o[1] # ""

\* a or b, on Optional[str]
Or(a, b) == IF Truthy(a) THEN a ELSE b

\* os.getenv(k): None when unset
Getenv(env, k) == env[k]

\* os.getenv(k, ""): a str
GetenvStr(env, k) == IF env[k] = None THEN "" ELSE env[k][1]

Min(a, b) == IF a <= b THEN a ELSE b
Max(a, b) == IF a >= b THEN a ELSE b

\* s[:n] on a sequence of characters, for any integer n
Slice(s, n) ==
    IF n >= 0 THEN SubSeq(s, 1, Min(n, Len(s)))
    ELSE SubSeq(s, 1, Max(0, Len(s) + n))

\* "..."
Ellipsis == <<".", ".", ".">>

---------------------------------------------------------------------------
(* The search provider (Exa), as the tool sees it *)

Alphabet == <<"a", "b", "c", "d", "e", "f", "g", "h">>

\* The i-th document of a response: its text has (i mod (MaxTextLen + 1))
\* characters, so that a response of MaxTextLen + 1 documents holds every
\* length from 0 (no text extracted) to MaxTextLen; every other document
\* carries no publication date.
ExaDocument(i) ==
    [title |-> "Title " \o ToString(i),
     url   |-> "https://example.org/" \o ToString(i),
     text  |-> SubSeq(Alphabet, 1, i % (MaxTextLen + 1)),
     published_date |-> IF i % 2 = 0 THEN None ELSE Some("2025-01-0" \o ToString(i))]

\* What exa.search_and_contents can do: answer with n documents (the code
\* passes num_results but the count is the provider's), or raise.
ExaErrors == {"", "401 invalid API key", "connection timed out"}
ExaOutcomes ==
    {[kind |-> "ok", results |-> [i \in 1..n |-> ExaDocument(i)]] : n \in 0..MaxDocs}
    \cup {[kind |-> "raise", message |-> e] : e \in ExaErrors}

---------------------------------------------------------------------------
(* WebSearchTool *)

\* WebSearchTool.__init__: api_key or os.getenv("EXA_API_KEY")
WebSearchTool(api_key, env) == [api_key |-> Or(api_key, Getenv(env, "EXA_API_KEY"))]

NoKeyMessage ==
    "No Exa API key available. Please provide an API key or set the EXA_API_KEY environment variable."

\* content_preview with the comparison off by one: a text of exactly
\* max_chars characters is cut and marked
ContentPreviewOffByOne(text, max_chars) ==
    IF Len(text) > 0
    THEN Some(IF Len(text) >= max_chars THEN Slice(text, max_chars) \o Ellipsis ELSE text)
    ELSE None

\* content_preview of one result (lines 99-102)
ContentPreview(text, max_chars) ==
    IF Len(text) > 0
    THEN Some(IF Len(text) > max_chars THEN Slice(text, max_chars) \o Ellipsis ELSE text)
    ELSE None

\* formatted_result (lines 104-109)
FormattedResult(result, max_chars) ==
    [title |-> result.title,
     url |-> result.url,
     published_date |-> result.published_date,
     content_preview |-> ContentPreview(result.text, max_chars)]

\* the except branch returning str(e) alone as the message
SearchErrorReturnBareMessage(message) ==
    [success |-> FALSE, error_message |-> Some(message), results |-> None]

\* the except branch (lines 123-131)
SearchErrorReturn(message) ==
    [success |-> FALSE,
     error_message |-> Some("Error performing search: " \o message),
     results |-> None]

\* WebSearchTool.run(input_data) when the remote call, if it is made, has
\* outcome exa. The value is what the caller gets: raised says whether an
\* exception left run, value is the dictionary returned (the exception, when
\* raised), requests counts the calls of exa.search_and_contents.
Run(self, input_data, exa) ==
    IF ~Truthy(self.api_key)
    THEN [raised |-> FALSE, requests |-> 0,
          value |-> [success |-> FALSE,
                     error_message |-> Some(NoKeyMessage),
                     results |-> None]]
    ELSE IF exa.kind = "raise"
    THEN [raised |-> FALSE, requests |-> 1, value |-> SearchErrorReturn(exa.message)]
    ELSE LET formatted_results ==
                 [i \in 1..Len(exa.results) |->
                     FormattedResult(exa.results[i], input_data.max_preview_chars)]
         IN [raised |-> FALSE, requests |-> 1,
             value |-> [success |-> TRUE,
                        error_message |-> None,
                        results |-> formatted_results,
                        search_query |-> input_data.search_query,
                        total_results_found |-> Len(formatted_results)]]

---------------------------------------------------------------------------
(* The pipeline's texts *)

Stages == <<"research", "insights", "writing", "editing">>
StageSet == {Stages[i] : i \in 1..Len(Stages)}

\* every agent configured with the tool
AgentToolsForAll(stage) == {"web_search_tool"}

\* tools=... of the four BaseAgentConfig (lines 69, 108, 131-134, 155-158)
AgentTools(stage) ==
    IF stage \in {"research", "insights"} THEN {"web_search_tool"} ELSE {}

\* an Optional[str] inside an f-string
Fmt(o) == IF o = None THEN "None" ELSE o[1]

\* manual_search (lines 163-182) when the remote call has outcome exa: the
\* dictionary it returns, and what it writes to the page
ManualSearch(tool, query, days_ago, exa) ==
    LET search_input == [search_query |-> query,
                         days_ago |-> days_ago,
                         max_results |-> max_results,
                         max_preview_chars |-> max_preview_chars]
        r == Run(tool, search_input, exa)
        info == [w |-> "info", text |-> "Searching for: '" \o query \o "'..."]
    IN  IF r.raised
        THEN [results |-> [success |-> FALSE, error_message |-> Some(r.value.exception)],
              shows |-> <<info, [w |-> "error",
                                 text |-> "Search error: " \o r.value.exception]>>]
        ELSE IF Get(r.value, "success", FALSE)
        THEN [results |-> r.value,
              shows |-> <<info, [w |-> "success",
                                 text |-> "Search successful: "
                                    \o ToString(Get(r.value, "total_results_found", 0))
                                    \o " results found"]>>]
        ELSE LET error_message == Get(r.value, "error_message", Some("Unknown error"))
             IN  [results |-> [success |-> FALSE, error_message |-> error_message],
                  shows |-> <<info, [w |-> "error",
                                     text |-> "Search failed: " \o Fmt(error_message)]>>]

\* one "[Result i]" block of the summary (lines 197-202, 207-212)
ResultBlock(i, result) ==
    [kind |-> "result",
     index |-> i,
     title |-> result.title,
     url |-> result.url,
     published_date |-> result.published_date,
     preview |-> IF result.content_preview # None /\ Len(result.content_preview[1]) > 0
                 THEN Some(Slice(result.content_preview[1], summary_preview_chars) \o Ellipsis)
                 ELSE None]

\* the part of the summary one search contributes (lines 194-202, 204-212)
SummarySection(results, lead) ==
    IF Get(results, "success", FALSE)
    THEN <<[kind |-> "search",
            lead |-> lead,
            query |-> IF "search_query" \in DOMAIN results
                      THEN Some(results.search_query) ELSE None,
            found |-> Len(Get(results, "results", <<>>))]>>
         \o [i \in 1..Len(Get(results, "results", <<>>)) |->
                ResultBlock(i, Get(results, "results", <<>>)[i])]
    ELSE <<>>

\* search_summary (lines 193-212): a sequence of blocks
SearchSummary(primary, secondary) ==
    <<[kind |-> "header"]>>
    \o SummarySection(primary, "")
    \o SummarySection(secondary, "\n")

\* the number of characters a block renders to
Digits(n) == Len(ToString(n))
OptLen(o) == Len(Fmt(o))
BlockLen(b) ==
    IF b.kind = "header" THEN 17
    ELSE IF b.kind = "search"
    THEN Len(b.lead) + 12 + OptLen(b.query) + 8 + Digits(b.found) + 11
    ELSE (8 + Digits(b.index) + 2)
         + (7 + Len(b.title) + 1)
         + (5 + Len(b.url) + 1)
         + (11 + OptLen(b.published_date) + 1)
         + (IF b.preview = None THEN 0 ELSE 9 + Len(b.preview[1]) + 2)

RECURSIVE SummaryLen(_, _)
\* the characters of the first k blocks
SummaryLen(summary, k) ==
    IF k = 0 THEN 0 ELSE SummaryLen(summary, k - 1) + BlockLen(summary[k])

\* search_summary without the slice
SummaryPrefixUncut(summary, n) == [blocks |-> summary, partial |-> 0]

\* search_summary[:n]: the blocks that fit whole in n characters, and the
\* number of characters taken from the block after them
SummaryPrefix(summary, n) ==
    LET fit == {k \in 0..Len(summary) : SummaryLen(summary, k) <= n}
        whole == CHOOSE k \in fit : \A j \in fit : j <= k
    IN  [blocks |-> SubSeq(summary, 1, whole),
         partial |-> IF whole < Len(summary) THEN n - SummaryLen(summary, whole) ELSE 0]

\* research_input.chat_message (lines 215-223)
ResearchMessage(user_input, summary) ==
    [task |-> "research", topic |-> user_input, body |-> summary]

\* insights_message with the topic where the research text belongs
InsightsMessageWithoutResearch(user_input, research, summary) ==
    [task |-> "insights", topic |-> user_input, body |-> user_input,
     context |-> SummaryPrefix(summary, insights_context_chars)]

\* insights_message (lines 242-247)
InsightsMessage(user_input, research, summary) ==
    [task |-> "insights", topic |-> user_input, body |-> research,
     context |-> SummaryPrefix(summary, insights_context_chars)]

\* writing_message (line 265)
WritingMessage(user_input, insights) ==
    [task |-> "writing", topic |-> user_input, body |-> insights]

\* editing_message (lines 283-286)
EditingMessage(user_input, draft) ==
    [task |-> "editing", topic |-> user_input, body |-> draft]

\* str(result) of an object that is no plain string
Str(r) ==
    "error_type='" \o r.error_type \o "' error_message='" \o r.error_message \o "'"

\* the hasattr chain (lines 232-239, 255-262, 273-280, 294-301)
ExtractContent(r) ==
    IF "response_message" \in DOMAIN r THEN r.response_message
    ELSE IF "content" \in DOMAIN r THEN r.content
    ELSE IF "response_content" \in DOMAIN r THEN r.response_content
    ELSE Str(r)

\* the returned dictionary with the draft under "final"
PipelineResultDraftAsFinal(research, insights, draft, final) ==
    [research |-> research, insights |-> insights, draft |-> draft, final |-> draft]

\* the dictionary run_pipeline returns (lines 303-308)
PipelineResult(research, insights, draft, final) ==
    [research |-> research, insights |-> insights, draft |-> draft, final |-> final]

---------------------------------------------------------------------------
(* The completion provider behind BaseAgent.run *)

StageText(stage) ==
    IF stage = "research" THEN "R1"
    ELSE IF stage = "insights" THEN "I1"
    ELSE IF stage = "writing" THEN "D1"
    ELSE "F1"

\* BaseAgent.run returns an output object, returns an error object (a
\* provider fault the agent caught), or raises. What a fault says is the
\* provider's wording: it does not name the stage.
AgentOutcomes ==
    [stage \in StageSet |->
        {[kind |-> "return", value |-> [response_message |-> StageText(stage)]],
         [kind |-> "return",
          value |-> [error_message |-> "completion failed",
                     error_type |-> "ProviderError"]],
         [kind |-> "raise", message |-> "connection error"]}]

\* the call did not produce a text
Failed(outcome) ==
    outcome.kind = "raise" \/ "error_type" \in DOMAIN outcome.value

---------------------------------------------------------------------------
(* State *)

VARIABLES
    environ,        \* os.environ: the two keys, shared by every session of the process
    pc,             \* where the session's script run is
    typed,          \* what the session's user typed into the two key fields (None: untouched)
    ui,             \* the values the widgets returned in this script run
    agents,         \* the NewsletterAgents instance (None before line 361)
    web_search_tool,\* the WebSearchTool instance (None before its construction)
    primary_search_results,
    secondary_search_results,
    search_summary,
    history,        \* per stage, the user message handed to the agent
    outcome,        \* per stage, what BaseAgent.run did
    content,        \* per stage, research_content / insights_content /
                    \* newsletter_draft / final_newsletter
    result,         \* what run_pipeline returned
    exception,      \* the exception main's except clause caught
    shown,          \* what the script run has written to the page, in order
    calls,          \* the calls made in this script run, in order
    tool_calls,     \* tool calls the running agent has made
    tool_return     \* the last direct or agent-made WebSearchTool.run: the tool,
                    \* its input, what the remote call did and what run gave back

vars == <<environ, pc, typed, ui, agents, web_search_tool, primary_search_results,
          secondary_search_results, search_summary, history, outcome, content,
          result, exception, shown, calls, tool_calls, tool_return>>

pipeline_vars == <<primary_search_results, secondary_search_results, search_summary,
                   history, outcome, content, result, tool_calls>>

\* keys
DotenvOpenAI == "sk-env"
DotenvExa == "exa-env"
OwnOpenAI == "sk-own"
OwnExa == "exa-own"
OtherOpenAI == "sk-other"
OtherExa == "exa-other"

Topics == {"", "llm"}

NoUi == [openai_api_key |-> "", exa_api_key |-> "", topic |-> "",
         show_intermediate |-> FALSE, generate_btn |-> FALSE]
NoTyped == [openai_api_key |-> None, exa_api_key |-> None]
NoStage == [s \in StageSet |-> None]

\* The process has started and load_dotenv() has run (line 17): each key is
\* in the environment or not. No session has run the script yet.
Init ==
    /\ environ \in [OPENAI_API_KEY : {None, Some(DotenvOpenAI)},
                    EXA_API_KEY : {None, Some(DotenvExa)}]
    /\ pc = "start"
    /\ typed = NoTyped
    /\ ui = NoUi
    /\ agents = None
    /\ web_search_tool = None
    /\ primary_search_results = None
    /\ secondary_search_results = None
    /\ search_summary = None
    /\ history = NoStage
    /\ outcome = NoStage
    /\ content = NoStage
    /\ result = None
    /\ exception = None
    /\ shown = <<>>
    /\ calls = <<>>
    /\ tool_calls = 0
    /\ tool_return = None

---------------------------------------------------------------------------
(* main: the script run of one session *)

\* st.text_input(value=default): the default unless the user typed
TextInput(default, user) == IF user = None THEN default ELSE user[1]

\* lines 322-336: the two key fields, pre-filled from the environment
RenderSidebar ==
    /\ pc = "start"
    /\ \E o \in {None, Some(OwnOpenAI)}, e \in {None, Some(OwnExa)} :
        /\ typed' = [openai_api_key |-> o, exa_api_key |-> e]
        /\ ui' = [ui EXCEPT
                    !.openai_api_key = TextInput(GetenvStr(environ, "OPENAI_API_KEY"), o),
                    !.exa_api_key = TextInput(GetenvStr(environ, "EXA_API_KEY"), e)]
    /\ pc' = "sidebar"
    /\ UNCHANGED <<environ, agents, web_search_tool, exception, shown, calls, tool_return>>
    /\ UNCHANGED pipeline_vars

\* lines 338-341: os.environ[...] = key, for each key that is not empty
ExportedEnviron(env, openai_api_key, exa_api_key) ==
    [OPENAI_API_KEY |-> IF openai_api_key # "" THEN Some(openai_api_key)
                        ELSE env.OPENAI_API_KEY,
     EXA_API_KEY |-> IF exa_api_key # "" THEN Some(exa_api_key) ELSE env.EXA_API_KEY]

ExportKeys ==
    /\ pc = "sidebar"
    /\ environ' = ExportedEnviron(environ, ui.openai_api_key, ui.exa_api_key)
    /\ pc' = "exported"
    /\ UNCHANGED <<typed, ui, agents, web_search_tool, exception, shown, calls, tool_return>>
    /\ UNCHANGED pipeline_vars

\* disabled=not (topic and openai_api_key and exa_api_key) (line 357)
ButtonEnabled(topic, openai_api_key, exa_api_key) ==
    topic # "" /\ openai_api_key # "" /\ exa_api_key # ""

\* lines 343-359: the warnings, the topic, the checkbox and the button
RenderForm ==
    /\ pc = "exported"
    /\ \E topic \in Topics, show \in BOOLEAN, click \in BOOLEAN :
        LET btn == click /\ ButtonEnabled(topic, ui.openai_api_key, ui.exa_api_key)
        IN  /\ ui' = [ui EXCEPT !.topic = topic, !.show_intermediate = show,
                                !.generate_btn = btn]
            /\ pc' = IF btn /\ topic # "" THEN "generate" ELSE "done"
    /\ shown' = shown
          \o (IF ui.openai_api_key = "" THEN <<[w |-> "warning", text |-> "openai"]>> ELSE <<>>)
          \o (IF ui.exa_api_key = "" THEN <<[w |-> "warning", text |-> "exa"]>> ELSE <<>>)
    /\ UNCHANGED <<environ, typed, agents, web_search_tool, exception, calls, tool_return>>
    /\ UNCHANGED pipeline_vars

\* NewsletterAgents.__init__ (lines 20-33)
NewsletterAgents(api_key, exa_api_key, env) ==
    [api_key |-> api_key,
     exa_api_key |-> Or(exa_api_key, Getenv(env, "EXA_API_KEY"))]

\* lines 361-365; building a provider or an agent may raise
NewAgents ==
    /\ pc = "generate"
    /\ \/ LET a == NewsletterAgents(Some(ui.openai_api_key), Some(ui.exa_api_key), environ)
          IN  /\ agents' = Some(a)
              /\ web_search_tool' = Some(WebSearchTool(a.exa_api_key, environ))
              /\ pc' = "search_primary"
              /\ UNCHANGED exception
       \/ /\ exception' = Some("agents: invalid configuration")
          /\ pc' = "failed"
          /\ UNCHANGED <<agents, web_search_tool>>
    /\ UNCHANGED <<environ, typed, ui, shown, calls, tool_return>>
    /\ UNCHANGED pipeline_vars

---------------------------------------------------------------------------
(* run_pipeline *)

PrimaryQuery(user_input) == "latest developments in " \o user_input
SecondaryQuery(user_input) == "impact of " \o user_input

SearchCall(query, days_ago) ==
    [op |-> "search", by |-> "pipeline", query |-> query, days_ago |-> days_ago]
ToolSearchCall(stage) ==
    [op |-> "search", by |-> stage, query |-> "", days_ago |-> 0]
CompletionCall(stage) ==
    [op |-> "complete", by |-> stage, query |-> "", days_ago |-> 0]
CompletionReturn(stage) ==
    [op |-> "completed", by |-> stage, query |-> "", days_ago |-> 0]

\* line 189: the 7-day search; the remote call has one of the outcomes exas
SearchPrimary(exas) ==
    /\ pc = "search_primary"
    /\ \E exa \in exas :
        LET query == PrimaryQuery(ui.topic)
            r == ManualSearch(web_search_tool[1], query, 7, exa)
        IN  /\ primary_search_results' = Some(r.results)
            /\ shown' = shown \o r.shows
            /\ calls' = Append(calls, SearchCall(query, 7))
    /\ pc' = "search_secondary"
    /\ UNCHANGED <<environ, typed, ui, agents, web_search_tool, exception, tool_return,
                   secondary_search_results, search_summary, history, outcome, content,
                   result, tool_calls>>

\* line 190: the 14-day search; the remote call has one of the outcomes exas
SearchSecondary(exas) ==
    /\ pc = "search_secondary"
    /\ \E exa \in exas :
        LET query == SecondaryQuery(ui.topic)
            r == ManualSearch(web_search_tool[1], query, 14, exa)
        IN  /\ secondary_search_results' = Some(r.results)
            /\ shown' = shown \o r.shows
            /\ calls' = Append(calls, SearchCall(query, 14))
    /\ pc' = "research"
    /\ UNCHANGED <<environ, typed, ui, agents, web_search_tool, exception, tool_return,
                   primary_search_results, search_summary, history, outcome, content,
                   result, tool_calls>>

\* the agent of a stage is called with message, and blocks (self.X.run(...))
CallAgent(stage, message) ==
    /\ history' = [history EXCEPT ![stage] = Some(message)]
    /\ calls' = Append(calls, CompletionCall(stage))
    /\ tool_calls' = 0
    /\ pc' = stage \o "_run"

\* lines 193-230: the summary, the research message, researcher.run
StartResearch ==
    /\ pc = "research"
    /\ LET summary == SearchSummary(primary_search_results[1], secondary_search_results[1])
       IN  /\ search_summary' = Some(summary)
           /\ CallAgent("research", ResearchMessage(ui.topic, summary))
    /\ UNCHANGED <<environ, typed, ui, agents, web_search_tool, exception, shown,
                   tool_return, primary_search_results, secondary_search_results,
                   outcome, content, result>>

\* lines 241-253: the insights message, insights_expert.run
StartInsights ==
    /\ pc = "insights"
    /\ CallAgent("insights",
                 InsightsMessage(ui.topic, content["research"][1], search_summary[1]))
    /\ UNCHANGED <<environ, typed, ui, agents, web_search_tool, exception, shown,
                   tool_return, primary_search_results, secondary_search_results,
                   search_summary, outcome, content, result>>

\* lines 264-271: the writing message, writer.run
StartWriting ==
    /\ pc = "writing"
    /\ CallAgent("writing", WritingMessage(ui.topic, content["insights"][1]))
    /\ UNCHANGED <<environ, typed, ui, agents, web_search_tool, exception, shown,
                   tool_return, primary_search_results, secondary_search_results,
                   search_summary, outcome, content, result>>

\* lines 282-292: the editing message, editor.run
StartEditing ==
    /\ pc = "editing"
    /\ CallAgent("editing", EditingMessage(ui.topic, content["writing"][1]))
    /\ UNCHANGED <<environ, typed, ui, agents, web_search_tool, exception, shown,
                   tool_return, primary_search_results, secondary_search_results,
                   search_summary, outcome, content, result>>

\* what the completion provider may ask the tool: any query, preview length
\* and result cap
ToolInputs ==
    {[search_query |-> "follow-up", days_ago |-> 7, max_results |-> max_results,
      max_preview_chars |-> m] : m \in 1..MaxPreviewChars}

\* While an agent that was given the tool runs, the completion provider may
\* have it call WebSearchTool.run, at most max_tool_call_attempts times.
AgentToolCall(exas) ==
    /\ \E stage \in StageSet :
        /\ pc = stage \o "_run"
        /\ "web_search_tool" \in AgentTools(stage)
        /\ tool_calls < Min(max_tool_call_attempts, MaxToolRequests)
        /\ calls' = Append(calls, ToolSearchCall(stage))
    /\ \E input_data \in ToolInputs, exa \in exas :
        tool_return' = Some([self |-> web_search_tool[1],
                             input |-> input_data,
                             exa |-> exa,
                             return |-> Run(web_search_tool[1], input_data, exa)])
    /\ tool_calls' = tool_calls + 1
    /\ UNCHANGED <<environ, pc, typed, ui, agents, web_search_tool, exception, shown,
                   primary_search_results, secondary_search_results, search_summary,
                   history, outcome, content, result>>

\* the position after a stage
AfterStage(stage) ==
    IF stage = "research" THEN "insights"
    ELSE IF stage = "insights" THEN "writing"
    ELSE IF stage = "writing" THEN "editing"
    ELSE "returned"

\* self.X.run returns or raises; the hasattr chain turns what it returned
\* into the stage's text; after the editor, run_pipeline returns (303-308)
FinishStage(stage, outcomes) ==
    /\ pc = stage \o "_run"
    /\ \E o \in outcomes :
        /\ outcome' = [outcome EXCEPT ![stage] = Some(o)]
        /\ calls' = Append(calls, CompletionReturn(stage))
        /\ IF o.kind = "raise"
           THEN /\ exception' = Some(o.message)
                /\ pc' = "failed"
                /\ UNCHANGED <<content, result>>
           ELSE /\ content' = [content EXCEPT ![stage] = Some(ExtractContent(o.value))]
                /\ pc' = AfterStage(stage)
                /\ result' = IF stage = "editing"
                             THEN Some(PipelineResult(content["research"][1],
                                                      content["insights"][1],
                                                      content["writing"][1],
                                                      ExtractContent(o.value)))
                             ELSE result
                /\ UNCHANGED exception
    /\ tool_return' = None
    /\ UNCHANGED <<environ, typed, ui, agents, web_search_tool, shown,
                   primary_search_results, secondary_search_results, search_summary,
                   history, tool_calls>>

\* lines 230-239
FinishResearch == FinishStage("research", AgentOutcomes["research"])
\* lines 253-262
FinishInsights == FinishStage("insights", AgentOutcomes["insights"])
\* lines 271-280
FinishWriting == FinishStage("writing", AgentOutcomes["writing"])
\* lines 292-308
FinishEditing == FinishStage("editing", AgentOutcomes["editing"])

---------------------------------------------------------------------------
(* main, after the pipeline *)

\* lines 372-394
ResultShows(r, topic, show_intermediate) ==
    <<[w |-> "success", text |-> "Newsletter generated"],
      [w |-> "subheader", text |-> "Your AI Newsletter"],
      [w |-> "markdown", text |-> r.final],
      [w |-> "download_button", text |-> r.final]>>
    \o (IF show_intermediate
        THEN <<[w |-> "expander", text |-> r.research],
               [w |-> "expander", text |-> r.insights],
               [w |-> "expander", text |-> r.draft]>>
        ELSE <<>>)

ShowResult ==
    /\ pc = "returned"
    /\ shown' = shown \o ResultShows(result[1], ui.topic, ui.show_intermediate)
    /\ pc' = "done"
    /\ UNCHANGED <<environ, typed, ui, agents, web_search_tool, exception, calls, tool_return>>
    /\ UNCHANGED pipeline_vars

\* the except clause without the retry hint
ErrorShowsWithoutHint(e) ==
    <<[w |-> "error", text |-> "Error generating newsletter: " \o e]>>

\* lines 396-398
ErrorShows(e) ==
    <<[w |-> "error", text |-> "Error generating newsletter: " \o e],
      [w |-> "error",
       text |-> "Please check your API keys and internet connection and try again."]>>

ShowError ==
    /\ pc = "failed"
    /\ shown' = shown \o ErrorShows(exception[1])
    /\ pc' = "done"
    /\ UNCHANGED <<environ, typed, ui, agents, web_search_tool, exception, calls, tool_return>>
    /\ UNCHANGED pipeline_vars

\* The user touches a widget or reloads the page and Streamlit runs the
\* script again: the script's variables and the page start afresh,
\* os.environ stays.
Rerun ==
    /\ pc = "done"
    /\ pc' = "start"
    /\ typed' = NoTyped
    /\ ui' = NoUi
    /\ agents' = None
    /\ web_search_tool' = None
    /\ primary_search_results' = None
    /\ secondary_search_results' = None
    /\ search_summary' = None
    /\ history' = NoStage
    /\ outcome' = NoStage
    /\ content' = NoStage
    /\ result' = None
    /\ exception' = None
    /\ shown' = <<>>
    /\ calls' = <<>>
    /\ tool_calls' = 0
    /\ tool_return' = None
    /\ UNCHANGED environ

\* The search provider in the runs of Spec: it answers with few documents,
\* with more than were asked for, or fails.
RunExaOutcomes ==
    {o \in ExaOutcomes :
        \/ o.kind = "raise" /\ o.message = "connection timed out"
        \/ o.kind = "ok" /\ Len(o.results) \in {2, MaxDocs}}

Next ==
    \/ RenderSidebar
    \/ ExportKeys
    \/ RenderForm
    \/ NewAgents
    \/ SearchPrimary(RunExaOutcomes)
    \/ SearchSecondary(RunExaOutcomes)
    \/ StartResearch
    \/ AgentToolCall(RunExaOutcomes)
    \/ FinishResearch
    \/ StartInsights
    \/ FinishInsights
    \/ StartWriting
    \/ FinishWriting
    \/ StartEditing
    \/ FinishEditing
    \/ ShowResult
    \/ ShowError
    \/ Rerun

Spec == Init /\ [][Next]_vars

---------------------------------------------------------------------------
(* WebSearchTool used on its own: any caller, any key, any input *)

\* WebSearchTool(api_key=...) (lines 48-56)
ToolNew ==
    /\ pc = "start"
    /\ \E k \in {None, Some(""), Some(OwnExa)} :
        web_search_tool' = Some(WebSearchTool(k, environ))
    /\ UNCHANGED <<environ, pc, typed, ui, agents, exception, shown, calls, tool_return>>
    /\ UNCHANGED pipeline_vars

\* tool.run(input_data) (lines 58-131)
ToolRun ==
    /\ pc = "start"
    /\ web_search_tool # None
    /\ \E input_data \in ToolInputs, exa \in ExaOutcomes :
        tool_return' = Some([self |-> web_search_tool[1],
                             input |-> input_data,
                             exa |-> exa,
                             return |-> Run(web_search_tool[1], input_data, exa)])
    /\ UNCHANGED <<environ, pc, typed, ui, agents, web_search_tool, exception, shown, calls>>
    /\ UNCHANGED pipeline_vars

NextTool ==
    \/ ToolNew
    \/ ToolRun

SpecTool == Init /\ [][NextTool]_vars

---------------------------------------------------------------------------
(* Two sessions of one Streamlit process *)

\* Another session's script run reaches lines 338-341 with the keys of its
\* own user: os.environ belongs to the process, not to a session.
OtherSessionExport ==
    /\ \E o \in {"", OtherOpenAI}, e \in {"", OtherExa} :
        /\ o # "" \/ e # ""
        /\ environ' = ExportedEnviron(environ, o, e)
    /\ UNCHANGED <<pc, typed, ui, agents, web_search_tool, exception, shown, calls, tool_return>>
    /\ UNCHANGED pipeline_vars

\* In the runs of SpecSessions the remote services answer, and the
\* completion provider asks for no tool call.
SessionExaOutcomes == {o \in ExaOutcomes : o.kind = "ok" /\ Len(o.results) = 1}
SessionAgentOutcomes ==
    [stage \in StageSet |-> {o \in AgentOutcomes[stage] : ~Failed(o)}]

NextSessions ==
    \/ OtherSessionExport
    \/ RenderSidebar
    \/ ExportKeys
    \/ RenderForm
    \/ NewAgents
    \/ SearchPrimary(SessionExaOutcomes)
    \/ SearchSecondary(SessionExaOutcomes)
    \/ StartResearch
    \/ FinishStage("research", SessionAgentOutcomes["research"])
    \/ StartInsights
    \/ FinishStage("insights", SessionAgentOutcomes["insights"])
    \/ StartWriting
    \/ FinishStage("writing", SessionAgentOutcomes["writing"])
    \/ StartEditing
    \/ FinishStage("editing", SessionAgentOutcomes["editing"])
    \/ ShowResult
    \/ ShowError
    \/ Rerun

SpecSessions == Init /\ [][NextSessions]_vars

---------------------------------------------------------------------------
(* Properties *)

IsPrefix(a, b) == Len(a) <= Len(b) /\ a = SubSeq(b, 1, Len(a))

\* the calls run_pipeline itself made, those an agent made for the provider left out
IsToolSearch(c) == c.op = "search" /\ c.by # "pipeline"
NotToolSearch(c) == ~IsToolSearch(c)
PipelineCalls == SelectSeq(calls, NotToolSearch)

NumCalls(op) == Cardinality({i \in 1..Len(calls) : calls[i].op = op})

Called(stage) == \E i \in 1..Len(calls) : calls[i] = CompletionCall(stage)

StageFailed(stage) == outcome[stage] # None /\ Failed(outcome[stage][1])
StageSucceeded(stage) == outcome[stage] # None /\ ~Failed(outcome[stage][1])

SearchFailed(results) == results # None /\ ~Get(results[1], "success", FALSE)
SearchSucceeded(results) == results # None /\ Get(results[1], "success", FALSE)

\* C1: when the insights stage has failed, the writer and the editor are not
\* called afterwards, and by the end of the script run the failure has
\* reached main's except clause.
C1_InsightsFailureStopsRun ==
    StageFailed("insights") =>
        /\ ~Called("writing")
        /\ ~Called("editing")
        /\ pc = "done" => exception # None

\* C2: run_pipeline returns a result only when all four stages succeeded.
C2_AllOrNothing ==
    result # None => \A stage \in StageSet : StageSucceeded(stage)

\* C3: when a manual search has failed, the researcher and the later stages
\* are not called.
C3_SearchFailureHaltsRun ==
    (SearchFailed(primary_search_results) \/ SearchFailed(secondary_search_results))
        => \A stage \in StageSet : ~Called(stage)

\* the order of the calls of one run
ExpectedCalls(topic) ==
    <<SearchCall(PrimaryQuery(topic), 7),
      SearchCall(SecondaryQuery(topic), 14),
      CompletionCall("research"), CompletionReturn("research"),
      CompletionCall("insights"), CompletionReturn("insights"),
      CompletionCall("writing"), CompletionReturn("writing"),
      CompletionCall("editing"), CompletionReturn("editing")>>

\* C4: the calls of a run are made in the order 7-day search, 14-day search,
\* research, insights, writing, editing, each after the one before it has
\* returned; the message of each stage holds the topic and the text of the
\* stage before it (the research message the merged search summary); and a
\* stage has its message before any later stage has an output.
C4_FixedOrderAndDataFlow ==
    /\ IsPrefix(PipelineCalls, ExpectedCalls(ui.topic))
    /\ history["research"] # None =>
          /\ history["research"][1].topic = ui.topic
          /\ history["research"][1].body
                = SearchSummary(primary_search_results[1], secondary_search_results[1])
    /\ history["insights"] # None =>
          /\ history["insights"][1].topic = ui.topic
          /\ outcome["research"] # None /\ outcome["research"][1].kind = "return"
          /\ history["insights"][1].body = ExtractContent(outcome["research"][1].value)
    /\ history["writing"] # None =>
          /\ history["writing"][1].topic = ui.topic
          /\ outcome["insights"] # None /\ outcome["insights"][1].kind = "return"
          /\ history["writing"][1].body = ExtractContent(outcome["insights"][1].value)
    /\ history["editing"] # None =>
          /\ history["editing"][1].topic = ui.topic
          /\ outcome["writing"] # None /\ outcome["writing"][1].kind = "return"
          /\ history["editing"][1].body = ExtractContent(outcome["writing"][1].value)
    /\ \A i, j \in 1..Len(Stages) :
          (i <= j /\ outcome[Stages[j]] # None) => history[Stages[i]] # None

\* the editor has been called with the writer's text as its message body
C4_Witness ==
    /\ Called("editing")
    /\ history["editing"][1].body = StageText("writing")

\* a run in which everything succeeded and no tool call was made has returned
SuccessfulRun ==
    /\ result # None
    /\ SearchSucceeded(primary_search_results)
    /\ SearchSucceeded(secondary_search_results)
    /\ \A stage \in StageSet : StageSucceeded(stage)
    /\ \A i \in 1..Len(calls) : ~IsToolSearch(calls[i])

\* C5: a run in which both searches and all four completions succeeded and
\* no tool call was made has made exactly 2 search calls and 4 completion
\* calls, one per stage, and its result maps research, insights, draft and
\* final to the texts of the researcher, the insights expert, the writer and
\* the editor.
C5_SuccessfulRunResult ==
    SuccessfulRun =>
        /\ NumCalls("search") = 2
        /\ NumCalls("complete") = 4
        /\ \A stage \in StageSet :
              Cardinality({i \in 1..Len(calls) : calls[i] = CompletionCall(stage)}) = 1
        /\ result[1].research = outcome["research"][1].value.response_message
        /\ result[1].insights = outcome["insights"][1].value.response_message
        /\ result[1].draft = outcome["writing"][1].value.response_message
        /\ result[1].final = outcome["editing"][1].value.response_message

C5_Witness == SuccessfulRun /\ result[1].final = "F1" /\ result[1].draft = "D1"

\* C6: the keys a session's agents are built with come from that session's
\* user or from the process's start-up environment, never from another
\* session.
C6_SessionsIsolated ==
    agents # None =>
        /\ agents[1].api_key # Some(OtherOpenAI)
        /\ agents[1].exa_api_key # Some(OtherExa)
        /\ web_search_tool[1].api_key # Some(OtherExa)

\* the remote call of the last tool.run could not give results: no key, or
\* the provider or the network failed
ToolCallFaulty ==
    /\ tool_return # None
    /\ \/ ~Truthy(tool_return[1].self.api_key)
       \/ tool_return[1].exa.kind = "raise"

\* C7: WebSearchTool.run never raises and makes at most one remote request;
\* without a key, and when the remote call fails, it returns success = false
\* with a non-empty error_message.
C7_RunFailsSoftly ==
    tool_return # None =>
        LET r == tool_return[1].return
        IN  /\ ~r.raised
            /\ r.requests <= 1
            /\ ToolCallFaulty =>
                  /\ r.value.success = FALSE
                  /\ r.value.error_message # None
                  /\ Len(r.value.error_message[1]) > 0

\* the provider raised an exception that carries no message
C7_Witness ==
    /\ ToolCallFaulty
    /\ Truthy(tool_return[1].self.api_key)
    /\ tool_return[1].exa.message = ""
    /\ tool_return[1].return.value.success = FALSE

\* the results of the last tool.run that answered: each document's text,
\* the preview made of it, and the preview length asked for
PreviewCases ==
    IF tool_return # None /\ ~tool_return[1].return.raised
       /\ tool_return[1].return.value.success
    THEN {[text |-> tool_return[1].exa.results[i].text,
           preview |-> tool_return[1].return.value.results[i].content_preview,
           max_chars |-> tool_return[1].input.max_preview_chars] :
            i \in 1..Len(tool_return[1].return.value.results)}
    ELSE {}

\* the preview is the first max_chars characters of the text and the marker
Truncated(c) ==
    c.preview # None /\ c.preview[1] = Slice(c.text, c.max_chars) \o Ellipsis

PreviewOfText(c) ==
    /\ c.preview # None
    /\ Len(c.preview[1]) <= c.max_chars + Len(Ellipsis)
    /\ Truncated(c) <=> Len(c.text) > c.max_chars
    /\ Len(c.text) <= c.max_chars => c.preview[1] = c.text

\* C8 as stated: for every result text, the preview has at most
\* max_preview_chars + 3 characters, is truncated and marked if and only if
\* the text is longer than max_preview_chars, and is the text otherwise.
C8_PreviewOfEveryText == \A c \in PreviewCases : PreviewOfText(c)

\* C8: for every result text that is not empty, the preview has at most
\* max_preview_chars + 3 characters, is truncated and marked if and only if
\* the text is longer than max_preview_chars, and is the text otherwise; for
\* an empty text there is no preview (content_preview is None).
C8_PreviewOfNonEmptyText ==
    \A c \in PreviewCases :
        IF Len(c.text) > 0 THEN PreviewOfText(c) ELSE c.preview = None

\* one answer holds a text that was truncated, a text of exactly
\* max_preview_chars characters, and an empty text
C8_Witness ==
    /\ \E c \in PreviewCases : Truncated(c) /\ Len(c.text) = c.max_chars + 1
    /\ \E c \in PreviewCases : Len(c.text) = c.max_chars /\ c.preview = Some(c.text)
    /\ \E c \in PreviewCases : Len(c.text) = 0

\* the "[Result i]" blocks the summary holds for the search of query
ResultBlocksOf(summary, query) ==
    LET at == CHOOSE i \in 1..Len(summary) :
                 summary[i].kind = "search" /\ summary[i].query = Some(query)
    IN  Cardinality({j \in (at + 1)..Len(summary) :
                        \A k \in (at + 1)..j : summary[k].kind = "result"})

RenderedAsCapped(results) ==
    SearchSucceeded(results) =>
        ResultBlocksOf(search_summary[1], results[1].search_query)
            = Min(max_results, results[1].total_results_found)

\* C9: for each successful search, the summary holds
\* min(max_results, total_results_found) result blocks.
C9_RenderedBlocksCapped ==
    search_summary # None =>
        /\ RenderedAsCapped(primary_search_results)
        /\ RenderedAsCapped(secondary_search_results)

\* what run_pipeline holds of a stage whose agent has returned: the text it
\* took from the returned object, the error description the object carries,
\* and whether the call produced a text
StageResult(stage) ==
    [success |-> ~Failed(outcome[stage][1]),
     text |-> content[stage],
     error |-> IF "error_message" \in DOMAIN outcome[stage][1].value
               THEN Some(outcome[stage][1].value.error_message)
               ELSE None]

\* C10: after a stage's agent has returned, success is false if and only if
\* an error description is present and not empty, and exactly one of text
\* and error is present.
C10_StageResultWellFormed ==
    \A stage \in StageSet :
        (outcome[stage] # None /\ outcome[stage][1].kind = "return") =>
            LET r == StageResult(stage)
            IN  /\ (r.success = FALSE) <=> (r.error # None /\ r.error[1] # "")
                /\ (r.text # None) # (r.error # None)

\* what the page holds of a generated newsletter
NewsletterWidgets == {"subheader", "markdown", "download_button", "expander"}

\* C11: when building the agents or run_pipeline has raised, main's except
\* clause takes the exception (the script run goes on to its end), the page
\* ends with the error description and the retry hint, and holds no
\* newsletter, download button or intermediate result.
C11_FailureShown ==
    /\ pc = "failed" => exception # None /\ ENABLED ShowError
    /\ exception # None =>
          /\ pc \in {"failed", "done"}
          /\ result = None
          /\ \A i \in 1..Len(shown) : shown[i].w \notin NewsletterWidgets
          /\ pc = "done" =>
                /\ Len(shown) >= 2
                /\ shown[Len(shown) - 1]
                      = [w |-> "error",
                         text |-> "Error generating newsletter: " \o exception[1]]
                /\ shown[Len(shown)]
                      = [w |-> "error",
                         text |-> "Please check your API keys and internet connection and try again."]

\* the writer raised after two stages had produced their texts, and the
\* script run has ended
C11_Witness ==
    /\ pc = "done"
    /\ exception = Some("connection error")
    /\ outcome["writing"] # None /\ outcome["writing"][1].kind = "raise"
    /\ content["insights"] = Some("I1")

\* the stages whose agents are configured with the tool (lines 69, 108)
ToolStages == {"research", "insights"}

\* C12: every search the completion provider has the tool make is made for
\* the researcher or the insights expert, after that agent was called and
\* before its call ended; while the writer or the editor runs, no tool call
\* has been made.
C12_ToolSearchOnlyInToolStages ==
    /\ \A i \in 1..Len(calls) :
          IsToolSearch(calls[i]) =>
             /\ calls[i].by \in ToolStages
             /\ \E j \in 1..(i - 1) :
                   /\ calls[j] = CompletionCall(calls[i].by)
                   /\ \A k \in (j + 1)..(i - 1) : calls[k] = calls[i]
    /\ pc \in {"writing_run", "editing_run"} => tool_calls = 0 /\ tool_return = None

\* the insights expert's provider searched, and the writer has run and the
\* editor is running
C12_Witness ==
    /\ pc = "editing_run"
    /\ \E i \in 1..Len(calls) : calls[i] = ToolSearchCall("insights")
    /\ Called("writing")

\* the characters of a cut summary
PrefixLen(prefix) == SummaryLen(prefix.blocks, Len(prefix.blocks)) + prefix.partial

\* C13: the insights message holds the research text whole and of the summary
\* its first 1000 characters and no more (the whole summary when it is
\* shorter); the research message holds the summary whole.
C13_InsightsContextBounded ==
    /\ history["research"] # None =>
          history["research"][1].body = search_summary[1]
    /\ history["insights"] # None =>
          LET message == history["insights"][1]
              summary == search_summary[1]
              context == message.context
          IN  /\ message.body = content["research"][1]
              /\ IsPrefix(context.blocks, summary)
              /\ context.partial >= 0
              /\ context.partial > 0 =>
                    /\ Len(context.blocks) < Len(summary)
                    /\ context.partial < BlockLen(summary[Len(context.blocks) + 1])
              /\ PrefixLen(context) <= insights_context_chars
              /\ PrefixLen(context)
                    = Min(insights_context_chars, SummaryLen(summary, Len(summary)))

\* a summary of more than 1000 characters was cut for the insights message
C13_Witness ==
    /\ history["insights"] # None
    /\ SummaryLen(search_summary[1], Len(search_summary[1])) > insights_context_chars
    /\ Len(history["insights"][1].context.blocks) < Len(search_summary[1])
    /\ history["research"][1].body = search_summary[1]

\* a summary of fewer than 1000 characters in the insights message
C13_WitnessShort ==
    /\ history["insights"] # None
    /\ Len(search_summary[1]) > 1
    /\ history["insights"][1].context.blocks = search_summary[1]

====
